---- MODULE Spec2Model ----
(***************************************************************************)
(* KnowLabel ingredient analyzer (ch_in_final.py).                         *)
(*                                                                         *)
(* A Python str is a sequence of pieces.  A piece is one character, or a   *)
(* literal of the program text kept whole (a message, a format fragment).  *)
(* A Python dict is a record [keys, val]: keys is the insertion order and  *)
(* val the mapping, so that overwriting a key keeps its position.          *)
(***************************************************************************)
EXTENDS Integers, Sequences, FiniteSets, TLC

VARIABLES pc, ingredients_db, input_text, raw_ingredients, idx, results,
          calls, user_input, chat_response, response, ai_info

vars == <<pc, ingredients_db, input_text, raw_ingredients, idx, results,
          calls, user_input, chat_response, response, ai_info>>

\* ---------------------------------------------------------------- bounds
MaxTextLen == 3
MaxQuestionLen == 3
MaxRows == 2
MaxChunks == 2

\* ------------------------------------------------------- Python values
None == "None"
PyTrue == "True"
PyFalse == "False"

NL == "\n"
Whitespace == {" ", NL}

UpperLetters == <<"A", "B", "T", "R", "U", "E">>
LowerLetters == <<"a", "b", "t", "r", "u", "e">>

IsUpper(c) == \E i \in DOMAIN UpperLetters : UpperLetters[i] = c
IsLower(c) == \E i \in DOMAIN LowerLetters : LowerLetters[i] = c
IsCased(c) == IsUpper(c) \/ IsLower(c)

char_lower(c) ==
    IF IsUpper(c)
    THEN LowerLetters[CHOOSE i \in DOMAIN UpperLetters : UpperLetters[i] = c]
    ELSE c

char_upper(c) ==
    IF IsLower(c)
    THEN UpperLetters[CHOOSE i \in DOMAIN LowerLetters : LowerLetters[i] = c]
    ELSE c

SetMin(S) == CHOOSE m \in S : \A n \in S : m <= n
SetMax(S) == CHOOSE m \in S : \A n \in S : n <= m

\* str.lower()
str_lower(s) == [i \in DOMAIN s |-> char_lower(s[i])]

\* str.strip(): drop leading and trailing whitespace
str_strip(s) ==
    LET keep == {i \in DOMAIN s : s[i] \notin Whitespace}
    IN  IF keep = {} THEN <<>> ELSE SubSeq(s, SetMin(keep), SetMax(keep))

\* str.replace(old, new) for a one-character old
str_replace(s, old, new) == [i \in DOMAIN s |-> IF s[i] = old THEN new ELSE s[i]]

\* str.split(sep) for a one-character sep: always at least one field
RECURSIVE str_split(_, _)
str_split(s, sep) ==
    LET hits == {i \in DOMAIN s : s[i] = sep}
    IN  IF hits = {}
        THEN <<s>>
        ELSE LET i == SetMin(hits)
             IN  <<SubSeq(s, 1, i - 1)>> \o str_split(SubSeq(s, i + 1, Len(s)), sep)

\* str.title(): a cased character is upper-cased after an uncased one (or at
\* the start) and lower-cased after a cased one
str_title(s) ==
    [i \in DOMAIN s |->
        IF i = 1 \/ ~IsCased(s[i - 1]) THEN char_upper(s[i]) ELSE char_lower(s[i])]

\* sep.join(parts)
RECURSIVE str_join(_, _)
str_join(parts, sep) ==
    IF parts = <<>> THEN <<>>
    ELSE IF Len(parts) = 1 THEN parts[1]
    ELSE parts[1] \o sep \o str_join(Tail(parts), sep)

\* a in b for strings
IsSubstring(a, b) ==
    \E i \in 0..Len(b) : i + Len(a) <= Len(b) /\ SubSeq(b, i + 1, i + Len(a)) = a

\* list comprehension filter keeping order
RECURSIVE SeqFilterNonEmpty(_)
SeqFilterNonEmpty(parts) ==
    IF parts = <<>> THEN <<>>
    ELSE IF str_strip(parts[1]) # <<>>
         THEN <<str_strip(parts[1])>> \o SeqFilterNonEmpty(Tail(parts))
         ELSE SeqFilterNonEmpty(Tail(parts))

\* all sequences over S of length at most n
SeqsUpTo(S, n) == UNION {[1..k -> S] : k \in 0..n}

\* ------------------------------------------------------------- dict
EmptyDict == [keys |-> <<>>, val |-> [k \in {} |-> k]]

DictHas(d, k) == k \in DOMAIN d.val


\* a mapping whose first value for a key stays
DictSet_KeepFirst(d, k, v) ==
    IF DictHas(d, k)
    THEN d
    ELSE [keys |-> Append(d.keys, k), val |-> (k :> v) @@ d.val]

DictSet(d, k, v) ==
    IF DictHas(d, k)
    THEN [keys |-> d.keys, val |-> [d.val EXCEPT ![k] = v]]
    ELSE [keys |-> Append(d.keys, k), val |-> (k :> v) @@ d.val]

\* ------------------------------------------------------------- ask_ollama
ConnectionErrorMsg == <<"Ollama server not running. Please run ollama serve first.">>
NoResponseMsg == <<"No response from model (check memory or prompt length).">>
ApiErrorMsg(status_code, text) == <<"API Error: ", status_code, " - ">> \o text
ErrorMsg(e) == <<"Error: ", e>>

ErrorStrings ==
    {ConnectionErrorMsg, NoResponseMsg}
      \cup {ErrorMsg(e) : e \in {"AttributeError", "TypeError", "Timeout"}}

\* One line of the response body, by what json.loads makes of it.
Fragments == {<<"x">>, <<"y">>, <<" ">>}
Chunk(kind, frag) == [kind |-> kind, response |-> frag]
ChunkKinds ==
    {Chunk("blank", <<>>),             \* whitespace only
     Chunk("invalid", <<>>),           \* json.loads raises JSONDecodeError
     Chunk("no_response", <<>>),       \* an object without the key "response"
     Chunk("null_response", <<>>),     \* an object whose "response" is null
     Chunk("non_object", <<>>)}        \* valid JSON that is not an object
      \cup {Chunk("object", f) : f \in Fragments}

\* the raw text of a line
ChunkText(c) ==
    CASE c.kind = "blank" -> <<" ">>
      [] c.kind = "invalid" -> <<"<html>">>
      [] c.kind = "no_response" -> <<"{done:true}">>
      [] c.kind = "null_response" -> <<"{response:null}">>
      [] c.kind = "non_object" -> <<"null">>
      [] OTHER -> <<"{response:">> \o c.response \o <<"}">>

BodyText(lines) == str_join([i \in DOMAIN lines |-> ChunkText(lines[i])], <<NL>>)

HttpResponse(exc, status_code, lines) ==
    [exc |-> exc, status_code |-> status_code, lines |-> lines]

Bodies(n) == SeqsUpTo(ChunkKinds, n)

HttpResponsesUpTo(n) ==
    {HttpResponse("ConnectionError", "0", <<>>), HttpResponse("Timeout", "0", <<>>)}
      \cup {HttpResponse("none", s, b) : s \in {"200", "500"}, b \in Bodies(n)}

HttpResponses == HttpResponsesUpTo(MaxChunks)

Return(v) == [kind |-> "return", value |-> v]
Raise(e) == [kind |-> "raise", value |-> <<e>>]

\* the loop of lines 21-30: text accumulated so far, or the exception that
\* left the loop
RECURSIVE AssembleText(_, _)
AssembleText(lines, text) ==
    IF lines = <<>> THEN Return(text)
    ELSE LET line == lines[1]
         IN  CASE line.kind \in {"blank", "invalid"} -> AssembleText(Tail(lines), text)
               [] line.kind = "non_object" -> Raise("AttributeError")
               [] line.kind = "null_response" -> Raise("TypeError")
               [] line.kind = "no_response" -> AssembleText(Tail(lines), text)
               [] OTHER -> AssembleText(Tail(lines), text \o line.response)

\* the try block, lines 12-34
TryBody(resp) ==
    IF resp.exc # "none" THEN Raise(resp.exc)
    ELSE IF resp.status_code # "200"
         THEN Return(ApiErrorMsg(resp.status_code, BodyText(resp.lines)))
         ELSE LET r == AssembleText(resp.lines, <<>>)
              IN  IF r.kind = "raise" THEN r
                  ELSE IF str_strip(r.value) = <<>> THEN Return(NoResponseMsg)
                  ELSE Return(r.value)

\* the handlers without the catch-all of line 38
HandleException_NoCatchAll(r) ==
    IF r.kind = "return" THEN r
    ELSE IF r.value = <<"ConnectionError">> THEN Return(ConnectionErrorMsg)
    ELSE r

\* the handlers, lines 36-39
HandleException(r) ==
    IF r.kind = "return" THEN r
    ELSE IF r.value = <<"ConnectionError">> THEN Return(ConnectionErrorMsg)
    ELSE Return(ErrorMsg(r.value[1]))

ask_ollama(resp) == HandleException(TryBody(resp))

\* the responses the pipeline is driven with: each failure kind, and every
\* success body of at most one line
PipelineResponses ==
    {HttpResponse("ConnectionError", "0", <<>>), HttpResponse("Timeout", "0", <<>>),
     HttpResponse("none", "500", <<>>), HttpResponse("none", "200", <<>>)}
      \cup {HttpResponse("none", "200", <<c>>) : c \in ChunkKinds}

\* ------------------------------------------------------- load_ingredients
Row(ingredient, beneficial, description, alternatives) ==
    [ingredient |-> ingredient, beneficial |-> beneficial,
     description |-> description, alternatives |-> alternatives]

\* the rows of the data file are drawn from these
Rows ==
    {Row(<<" ", "A">>, <<"T", "r", "u", "e", " ">>, <<"d1", " ">>, <<"b", ";", " ", "e">>),
     Row(<<"a", "B">>, <<>>, <<"d2">>, <<>>),
     Row(<<" ">>, <<"t", "r", "u", "e">>, <<"d3">>, <<"e">>),
     Row(<<"a">>, <<"b", "e">>, <<"d4">>, <<";">>)}

Record(beneficial, description, alternatives) ==
    [beneficial |-> beneficial, description |-> description,
     alternatives |-> alternatives]

\* lines 54-62: the key and the record one row gives
RowName(row) == str_lower(str_strip(row.ingredient))

RowRecord(row) ==
    Record(IF str_lower(str_strip(row.beneficial)) = <<"t", "r", "u", "e">>
           THEN PyTrue ELSE PyFalse,
           str_strip(row.description),
           IF row.alternatives # <<>>
           THEN SeqFilterNonEmpty(str_split(row.alternatives, ";"))
           ELSE <<>>)

RECURSIVE LoadRows(_, _)
LoadRows(rows, ingredients) ==
    IF rows = <<>> THEN ingredients
    ELSE LoadRows(Tail(rows), DictSet(ingredients, RowName(rows[1]), RowRecord(rows[1])))

load_ingredients(rows) == LoadRows(rows, EmptyDict)

\* ---------------------------------------------------- analyze_ingredients
TextAlphabet == {"a", "A", "b", " ", ",", NL}
\* the shape of "Water, Glycerin\nParabens"
ExampleTexts == {<<"a", ",", " ", "b", NL, "A">>}
Texts == SeqsUpTo(TextAlphabet, MaxTextLen) \cup ExampleTexts


\* line 79 without the replacement of newlines
Tokenize_NoNewline(text) == SeqFilterNonEmpty(str_split(text, ","))

\* line 79
Tokenize(text) == SeqFilterNonEmpty(str_split(str_replace(text, NL, ","), ","))


\* line 83 without the lower-casing
NormalizeKey_NoLower(ingredient) == ingredient

\* line 83
NormalizeKey(ingredient) == str_lower(ingredient)


\* line 88 asking about the lower-cased name
IngredientPrompt_Normalized(ingredient) ==
    <<"What can you tell me about the ingredient '">> \o str_lower(ingredient)
        \o <<"' in cosmetics or skincare?">>

\* line 88
IngredientPrompt(ingredient) ==
    <<"What can you tell me about the ingredient '">> \o ingredient
        \o <<"' in cosmetics or skincare?">>


\* lines 90-94 with the flag of a curated record
FallbackRecord_Harmful(info) == Record(PyFalse, info, <<>>)

\* lines 90-94
FallbackRecord(info) == Record(None, info, <<>>)

Call(prompt, reply, tok) == [prompt |-> prompt, reply |-> reply, tok |-> tok]

\* --------------------------------------------------------- chatbot_answer
QuestionAlphabet == {"a", "A", "b", " "}
Questions == SeqsUpTo(QuestionAlphabet, MaxQuestionLen)

\* lines 100-105: the key the loop leaves in found_ingredient; set is FALSE
\* when it is still None
FindIngredient(db, user_input_lower) ==
    LET hits == {i \in DOMAIN db.keys : IsSubstring(db.keys[i], user_input_lower)}
    IN  IF hits = {}
        THEN [set |-> FALSE, key |-> <<>>]
        ELSE [set |-> TRUE, key |-> db.keys[SetMin(hits)]]

\* line 107: the truth value of found_ingredient (None and "" are false)
Truthy(found) == found.set /\ found.key # <<>>

BeneficialBadge == <<"This ingredient is *beneficial*.", NL>>
HarmfulBadge == <<"This ingredient may be *harmful or controversial*.", NL>>

\* lines 108-117
FormatAnswer(name, info) ==
    <<"**">> \o str_title(name) \o <<"**", NL, NL>>
      \o (IF info.beneficial = PyTrue THEN BeneficialBadge ELSE HarmfulBadge)
      \o <<"**Description:** ">> \o info.description \o <<NL>>
      \o (IF info.alternatives # <<>>
          THEN <<"**Alternatives:** ">> \o str_join(info.alternatives, <<",", " ">>) \o <<NL>>
          ELSE <<>>)


\* line 119 forwarding the lower-cased question
ChatPrompt_Lower(question) == str_lower(question)

\* line 119
ChatPrompt(question) == question

\* ------------------------------------------------------------ pipeline
NoResponse == HttpResponse("none", "0", <<>>)
NoReply == Return(<<>>)

Init ==
    /\ pc = "start"
    /\ ingredients_db = EmptyDict
    /\ input_text = <<>>
    /\ raw_ingredients = <<>>
    /\ idx = 0
    /\ results = EmptyDict
    /\ calls = <<>>
    /\ user_input = <<>>
    /\ chat_response = <<>>
    /\ response = NoResponse
    /\ ai_info = NoReply

\* main, line 132
LoadIngredients ==
    /\ pc = "start"
    /\ \E rows \in SeqsUpTo(Rows, MaxRows) : ingredients_db' = load_ingredients(rows)
    /\ pc' = "idle"
    /\ UNCHANGED <<input_text, raw_ingredients, idx, results, calls, user_input,
                   chat_response, response, ai_info>>

\* analyze_ingredients, lines 79-80
AnalyzeBegin ==
    /\ pc = "idle"
    /\ \E text \in Texts :
          /\ str_strip(text) # <<>>      \* main, line 143
          /\ input_text' = text
          /\ raw_ingredients' = Tokenize(text)
    /\ results' = EmptyDict
    /\ idx' = 1
    /\ calls' = <<>>
    /\ pc' = "analyze"
    /\ UNCHANGED <<ingredients_db, user_input, chat_response, response, ai_info>>

\* one pass of the loop for an ingredient of the data set, lines 83-85
AnalyzeFound ==
    /\ pc = "analyze"
    /\ idx <= Len(raw_ingredients)
    /\ LET ingredient == raw_ingredients[idx]
           key == NormalizeKey(ingredient)
       IN  /\ DictHas(ingredients_db, key)
           /\ results' = DictSet(results, ingredient, ingredients_db.val[key])
    /\ idx' = idx + 1
    /\ UNCHANGED <<pc, ingredients_db, input_text, raw_ingredients, calls,
                   user_input, chat_response, response, ai_info>>

\* one pass of the loop for any other ingredient, lines 86-94
AnalyzeAsk ==
    /\ pc = "analyze"
    /\ idx <= Len(raw_ingredients)
    /\ LET ingredient == raw_ingredients[idx]
           key == NormalizeKey(ingredient)
           prompt == IngredientPrompt(ingredient)
       IN  /\ ~DictHas(ingredients_db, key)
           /\ \E resp \in PipelineResponses :
                LET info == ask_ollama(resp)
                IN  IF info.kind = "return"
                    THEN /\ results' = DictSet(results, ingredient, FallbackRecord(info.value))
                         /\ calls' = Append(calls, Call(prompt, info.value, idx))
                         /\ idx' = idx + 1
                         /\ pc' = pc
                    ELSE /\ calls' = Append(calls, Call(prompt, info.value, idx))
                         /\ pc' = "raised"
                         /\ UNCHANGED <<results, idx>>
    /\ UNCHANGED <<ingredients_db, input_text, raw_ingredients, user_input,
                   chat_response, response, ai_info>>

\* line 96
AnalyzeReturn ==
    /\ pc = "analyze"
    /\ idx > Len(raw_ingredients)
    /\ pc' = "analyzed"
    /\ UNCHANGED <<ingredients_db, input_text, raw_ingredients, idx, results, calls,
                   user_input, chat_response, response, ai_info>>

\* chatbot_answer, lines 99-120
ChatbotAnswer ==
    /\ pc = "idle"
    /\ \E question \in Questions \ {<<>>} :      \* main, line 168
          LET found == FindIngredient(ingredients_db, str_lower(question))
          IN  /\ user_input' = question
              /\ IF Truthy(found)
                 THEN /\ chat_response' = FormatAnswer(found.key, ingredients_db.val[found.key])
                      /\ calls' = <<>>
                      /\ pc' = "answered"
                 ELSE \E resp \in PipelineResponses :
                        LET info == ask_ollama(resp)
                        IN  /\ calls' = <<Call(ChatPrompt(question), info.value, 0)>>
                            /\ IF info.kind = "return"
                               THEN chat_response' = info.value /\ pc' = "answered"
                               ELSE chat_response' = <<>> /\ pc' = "raised"
    /\ UNCHANGED <<ingredients_db, input_text, raw_ingredients, idx, results,
                   response, ai_info>>

\* the script is run again for the next interaction, lines 123-171
Rerun ==
    /\ pc \in {"analyzed", "answered"}
    /\ pc' = "idle"
    /\ input_text' = <<>>
    /\ raw_ingredients' = <<>>
    /\ idx' = 0
    /\ results' = EmptyDict
    /\ calls' = <<>>
    /\ user_input' = <<>>
    /\ chat_response' = <<>>
    /\ UNCHANGED <<ingredients_db, response, ai_info>>

Next ==
    \/ LoadIngredients
    \/ AnalyzeBegin
    \/ AnalyzeFound
    \/ AnalyzeAsk
    \/ AnalyzeReturn
    \/ ChatbotAnswer
    \/ Rerun

Spec == Init /\ [][Next]_vars

\* ------------------------------------------------- ask_ollama on its own
InitOracle ==
    /\ pc = "request"
    /\ response \in HttpResponses
    /\ ai_info = NoReply
    /\ ingredients_db = EmptyDict
    /\ input_text = <<>>
    /\ raw_ingredients = <<>>
    /\ idx = 0
    /\ results = EmptyDict
    /\ calls = <<>>
    /\ user_input = <<>>
    /\ chat_response = <<>>

\* ask_ollama, lines 11-39
AskOllama ==
    /\ pc = "request"
    /\ ai_info' = ask_ollama(response)
    /\ pc' = "replied"
    /\ UNCHANGED <<ingredients_db, input_text, raw_ingredients, idx, results, calls,
                   user_input, chat_response, response>>

NextOracle == AskOllama

SpecOracle == InitOracle /\ [][NextOracle]_vars

\* ================================================================ claims
Analysing == pc \in {"analyze", "analyzed"}
TokenIndices == DOMAIN raw_ingredients
Surfaces == {raw_ingredients[i] : i \in TokenIndices}
NormalizedName(surface) == str_lower(str_strip(surface))
IsKnown(surface) == NormalizedName(surface) \in DOMAIN ingredients_db.val
LastIndex(surface) == SetMax({i \in TokenIndices : raw_ingredients[i] = surface})
CallsFor(i) == {k \in DOMAIN calls : calls[k].tok = i}
UnknownUpTo(n) == {i \in TokenIndices : i <= n /\ ~IsKnown(raw_ingredients[i])}
IsErrorString(s) ==
    \/ s \in ErrorStrings
    \/ (s # <<>> /\ s[1] = "API Error: ")
KeyMatches(question) ==
    {i \in DOMAIN ingredients_db.keys :
        IsSubstring(ingredients_db.keys[i], str_lower(question))}

\* C1: when every token of the text, trimmed and lower-cased, is a key of the
\* knowledge base, the result maps every token's surface form to the record
\* stored under its normalized name, whose flag is true or false, never unknown.
C1_KnownRecordsCopied ==
    (pc = "analyzed" /\ \A i \in TokenIndices : IsKnown(raw_ingredients[i]))
        => \A i \in TokenIndices :
              LET surface == raw_ingredients[i]
              IN  /\ DictHas(results, surface)
                  /\ results.val[surface] = ingredients_db.val[NormalizedName(surface)]
                  /\ results.val[surface].beneficial \in {PyTrue, PyFalse}

C1_Witness ==
    /\ pc = "analyzed"
    /\ Len(raw_ingredients) >= 2
    /\ \A i \in TokenIndices : IsKnown(raw_ingredients[i])
    /\ \E i \in TokenIndices : raw_ingredients[i] # NormalizedName(raw_ingredients[i])
    /\ \E i \in TokenIndices : results.val[raw_ingredients[i]].beneficial = PyFalse

SeparatorPositions(text) == {i \in DOMAIN text : text[i] \in {",", NL}}
Fences(text) == {0, Len(text) + 1} \cup SeparatorPositions(text)
Stretches(text) ==
    LET fences == Fences(text)
    IN  {st \in fences \X fences :
            /\ st[1] < st[2]
            /\ \A f \in fences : ~(st[1] < f /\ f < st[2])
            /\ \E i \in (st[1] + 1)..(st[2] - 1) : text[i] # " "}
Trimmed(text, st) ==
    LET inked == {i \in (st[1] + 1)..(st[2] - 1) : text[i] # " "}
    IN  SubSeq(text, SetMin(inked), SetMax(inked))
ExpectedCandidates(text) ==
    LET stretches == Stretches(text)
        starts == {st[1] : st \in stretches}
        nth(k) == CHOOSE st \in stretches :
                     Cardinality({f \in starts : f < st[1]}) = k - 1
    IN  [k \in 1..Cardinality(stretches) |-> Trimmed(text, nth(k))]
FirstOccurrences(seq) ==
    LET firsts == {i \in DOMAIN seq : \A j \in 1..(i - 1) : seq[j] # seq[i]}
        nth(k) == CHOOSE i \in firsts : Cardinality({j \in firsts : j < i}) = k - 1
    IN  [k \in 1..Cardinality(firsts) |-> seq[nth(k)]]

\* C3: the candidates are the comma- and newline-separated pieces of the text,
\* trimmed, the empty ones dropped, in order of appearance; none is empty, has
\* leading or trailing whitespace or contains a comma or newline; and they are
\* processed in that order.
C3_Tokenization ==
    Analysing =>
        /\ raw_ingredients = ExpectedCandidates(input_text)
        /\ \A i \in TokenIndices :
              LET c == raw_ingredients[i]
              IN  /\ c # <<>>
                  /\ c[1] \notin Whitespace
                  /\ c[Len(c)] \notin Whitespace
                  /\ \A j \in DOMAIN c : c[j] \notin {",", NL}
        /\ idx \in 1..(Len(raw_ingredients) + 1)
        /\ results.keys = FirstOccurrences(SubSeq(raw_ingredients, 1, idx - 1))

C3_Witness ==
    /\ pc = "analyzed"
    /\ input_text = <<"a", ",", " ", "b", NL, "A">>
    /\ raw_ingredients = <<(<<"a">>), (<<"b">>), (<<"A">>)>>
    /\ results.keys = raw_ingredients

\* C4: a surface form that occurs more than once has exactly one entry, the
\* record of its last occurrence; the result has as many entries as there are
\* distinct surface forms, and forms differing only in case are separate.
C4_LastOccurrenceWins ==
    pc = "analyzed" =>
        /\ Len(results.keys) = Cardinality(Surfaces)
        /\ DOMAIN results.val = Surfaces
        /\ \A i, j \in DOMAIN results.keys : i # j => results.keys[i] # results.keys[j]
        /\ \A surface \in Surfaces :
              IF IsKnown(surface)
              THEN results.val[surface] = ingredients_db.val[NormalizedName(surface)]
              ELSE /\ Cardinality(CallsFor(LastIndex(surface))) = 1
                   /\ \A k \in CallsFor(LastIndex(surface)) :
                         results.val[surface].description = calls[k].reply

C4_Witness ==
    /\ pc = "analyzed"
    /\ \E i, j \in TokenIndices :
          /\ i < j
          /\ raw_ingredients[i] = raw_ingredients[j]
          /\ ~IsKnown(raw_ingredients[i])
          /\ \E k, l \in DOMAIN calls :
                /\ calls[k].tok = i
                /\ calls[l].tok = j
                /\ calls[k].reply # calls[l].reply
                /\ results.val[raw_ingredients[i]].description = calls[l].reply
    /\ Len(results.keys) = 1

\* C5: if at least one key of the knowledge base occurs in the lower-cased
\* question, chatbot_answer returns the formatted answer of a matching key and
\* does not call the oracle (also when the matching key is the empty string).
C5_MatchNeverAsksOracle ==
    (pc = "answered" /\ KeyMatches(user_input) # {}) =>
        /\ calls = <<>>
        /\ \E i \in KeyMatches(user_input) :
              chat_response =
                  FormatAnswer(ingredients_db.keys[i],
                               ingredients_db.val[ingredients_db.keys[i]])

\* C6: if no key occurs in the lower-cased question, chatbot_answer makes
\* exactly one oracle call, its prompt is the question as typed, and it returns
\* exactly what the oracle returned.
C6_FallbackForwardsVerbatim ==
    (pc = "answered" /\ KeyMatches(user_input) = {}) =>
        /\ Len(calls) = 1
        /\ calls[1].prompt = user_input
        /\ chat_response = calls[1].reply

C6_Witness ==
    /\ pc = "answered"
    /\ KeyMatches(user_input) = {}
    /\ ingredients_db.keys # <<>>
    /\ user_input # str_lower(user_input)
    /\ user_input # str_strip(user_input)
    /\ IsErrorString(chat_response)

RECURSIVE FragmentsInOrder(_)
FragmentsInOrder(lines) ==
    IF lines = <<>> THEN <<>>
    ELSE (IF lines[1].kind = "object" THEN lines[1].response ELSE <<>>)
            \o FragmentsInOrder(Tail(lines))
IsBlank(s) == \A i \in DOMAIN s : s[i] \in Whitespace

\* C8: on a success status ask_ollama returns the fragments of all chunks
\* concatenated in delivery order, a chunk that does not parse or has no usable
\* fragment being skipped without failing the request, and returns the
\* empty-response message exactly when that text is empty or blank.
C8_BestEffortAssembly ==
    (pc = "replied" /\ response.exc = "none" /\ response.status_code = "200") =>
        LET text == FragmentsInOrder(response.lines)
        IN  ai_info = Return(IF IsBlank(text) THEN NoResponseMsg ELSE text)

\* C9: chatbot_answer uses the first key, in the stored order of the knowledge
\* base, that occurs in the lower-cased question, and builds the answer from
\* that key's record only; later keys are never used.
C9_FirstMatchingKeyAnswers ==
    (pc = "answered" /\ KeyMatches(user_input) # {}) =>
        LET first == ingredients_db.keys[SetMin(KeyMatches(user_input))]
            info == ingredients_db.val[first]
        IN  chat_response =
                <<"**">> \o str_title(first) \o <<"**", NL, NL>>
                  \o (IF info.beneficial = PyTrue THEN BeneficialBadge ELSE HarmfulBadge)
                  \o <<"**Description:** ">> \o info.description \o <<NL>>
                  \o (IF info.alternatives = <<>> THEN <<>>
                      ELSE <<"**Alternatives:** ">>
                             \o str_join(info.alternatives, <<",", " ">>) \o <<NL>>)

\* C10: in one analysis the oracle is called once for every token, repeated or
\* not, whose normalized form is not a key, in input order, with a prompt that
\* embeds the token's surface form; never for a token of the knowledge base,
\* and never a second time after a failure.
C10_OneCallPerMiss ==
    Analysing =>
        /\ Len(calls) = Cardinality(UnknownUpTo(idx - 1))
        /\ \A i \in TokenIndices :
              Cardinality(CallsFor(i)) = (IF i \in UnknownUpTo(idx - 1) THEN 1 ELSE 0)
        /\ \A k, l \in DOMAIN calls : k < l => calls[k].tok < calls[l].tok
        /\ \A k \in DOMAIN calls :
              calls[k].prompt =
                  <<"What can you tell me about the ingredient '">>
                    \o raw_ingredients[calls[k].tok]
                    \o <<"' in cosmetics or skincare?">>

C10_Witness ==
    /\ pc = "analyzed"
    /\ Len(raw_ingredients) = 3
    /\ Len(calls) = 1
    /\ IsErrorString(calls[1].reply)
    /\ \E i \in TokenIndices :
          /\ IsKnown(raw_ingredients[i])
          /\ raw_ingredients[i] # str_lower(raw_ingredients[i])

====
